---------------------------- MODULE Spec2Model ----------------------------
(***************************************************************************)
(* The request-dispatch core of the FaaS gateway (gateway/server.cpp):     *)
(* the call table (pending, running, discarded, connections) behind the    *)
(* mutex mu_, the I/O workers that run OnNewFuncCallCommon,                *)
(* TryDispatchingPendingFuncCalls and                                      *)
(* HandleFuncCallCompleteOrFailedMessage, the NodeManager interface they   *)
(* call, and the engines and clients around them.                          *)
(*                                                                         *)
(* Every mutex-protected block of the source is one atomic action; the     *)
(* code between two blocks (a NodeManager pick, a send, a completion       *)
(* callback) is an action of its own, so that other workers interleave     *)
(* exactly where the source lets them.                                     *)
(*                                                                         *)
(* The I/O workers, call contexts, nodes and connections of a run are the  *)
(* domains of wk, ctx, inflight and conn_worker, fixed by the initial      *)
(* state.  Spec is the dispatch core under calls of one function;          *)
(* RequestSpec adds every kind of request (unknown names, gRPC, two        *)
(* functions) and a clock that may stall or step back; DrainSpec starts    *)
(* from a queue of two calls with three workers; CounterSpec is the call   *)
(* id counter alone, started from any value.                               *)
(***************************************************************************)
EXTENDS Integers, Sequences, FiniteSets, TLC

\* ------------------------------------------------------------- bounds
\* Calls that OnNewHttpFuncCall accepts in one run.
MaxCalls == 2
\* I/O workers (FLAGS_num_io_workers).
NumWorkers == 2
\* Engine nodes that may connect.
NumNodes == 1
\* Client connections that may be opened.
MaxConns == 2
\* Replies an engine sends beyond the first one for a call (duplicates).
MaxDuplicateReplies == 1
\* Reservations a node accepts at a time (the NodeManager's capacity cap).
MaxInflight == 1
\* Largest value GetMonotonicMicroTimestamp returns in RequestSpec.
MaxClock == 1
\* Requests rejected with kNotFound in one run of RequestSpec.
MaxRejected == 1
\* Call ids allocated in one run of CounterSpec.
MaxAllocated == 4
\* How far from 1 and from the wrap of call_id CounterSpec starts the counter.
WrapMargin == 4

Calls == 1..MaxCalls
Workers == 1..NumWorkers
Nodes == 1..NumNodes
Conns == 0..(MaxConns - 1)
\* The payload of an engine reply, of either type.
Payloads == {<<1>>}
MessageTypes == {"FuncCallComplete", "FuncCallFailed"}
Clock == 0..MaxClock

\* FuncCallContext::Status
kCreated == "created"
kSuccess == "success"
kFailed == "failed"
kNotFound == "not_found"

\* FuncCall::call_id keeps the low 16 bits of the counter value.
kCallIdModulus == 65536

\* func_config_: an HTTP function and a gRPC service with one method.
FuncConfig ==
    [hello |-> [func_id |-> 1, is_grpc_service |-> FALSE,
                grpc_method_ids |-> <<>>],
     svc |-> [func_id |-> 2, is_grpc_service |-> TRUE,
              grpc_method_ids |-> [m |-> 1]]]

\* Names a request may carry: the configured ones and one that is not.
FuncNames == {"hello", "svc", "bye"}
MethodNames == {"m", "x"}

VARIABLES
    \* Server fields
    next_call_id_,              \* std::atomic<uint32_t>
    next_http_connection_id_,
    next_http_conn_worker_id_,
    next_grpc_connection_id_,
    next_grpc_conn_worker_id_,
    mu_,                        \* 0 when free, else the worker holding it
    connections_,               \* ids of the client connections in the map
    pending_func_calls_,        \* deque of FuncCallState
    running_func_calls_,        \* set of FuncCallState, keyed by func_call
    discarded_func_calls_,      \* set of full_call_id
    queueing_delay_stat_,       \* number of samples added
    running_requests_stat_,     \* number of samples added
    dispatch_overhead_stat_,    \* number of samples added
    last_request_timestamp_,
    per_func_stats_,            \* func_id -> PerFuncStat, created on demand
    incoming_requests_stat_,    \* number of ticks
    request_interval_stat_,     \* number of samples added
    \* FuncCallContext objects, by the call id they were given
    ctx,
    \* each worker's position and locals
    wk,
    \* NodeManager
    connected_nodes,
    inflight,
    \* engines: the node each DispatchFuncCall reached, replies sent so far
    sent,
    replies,
    \* observation of the calls the server makes (history)
    cb,                 \* OnFuncCallFinished invocations per call
    cb_after_discard,   \* calls finished after DiscardFuncCall returned
    picked,             \* node of the successful pick per call, 0 if none
    fins,               \* FuncCallFinished invocations per call
    discard_returned,   \* calls for which DiscardFuncCall has returned
    send_failed,        \* sync calls whose SendMessage returned false
    queued_before,      \* per call, the ids in pending when it arrived
    allocated,          \* the call ids given out, in the order of fetch_add
    rejected,           \* the contexts finished without a call id
    outcome,            \* per call, what its on_new_call has done
    conn_worker,        \* the I/O worker each connection was registered to
    conn_type           \* "http" or "grpc" per registered connection

vars == <<next_call_id_, next_http_connection_id_, next_http_conn_worker_id_,
          next_grpc_connection_id_, next_grpc_conn_worker_id_,
          mu_, connections_, pending_func_calls_, running_func_calls_,
          discarded_func_calls_, queueing_delay_stat_, running_requests_stat_,
          dispatch_overhead_stat_, last_request_timestamp_, per_func_stats_,
          incoming_requests_stat_, request_interval_stat_, ctx, wk,
          connected_nodes, inflight, sent, replies, cb, cb_after_discard,
          picked, fins, discard_returned, send_failed, queued_before,
          allocated, rejected, outcome, conn_worker, conn_type>>

connIdVars == <<next_http_connection_id_, next_http_conn_worker_id_,
                next_grpc_connection_id_, next_grpc_conn_worker_id_>>
serverVars == <<next_call_id_, connIdVars, mu_, connections_>>
tableVars == <<pending_func_calls_, running_func_calls_, discarded_func_calls_>>
statVars == <<queueing_delay_stat_, running_requests_stat_, dispatch_overhead_stat_>>
tickVars == <<last_request_timestamp_, per_func_stats_, incoming_requests_stat_,
              request_interval_stat_>>
nodeVars == <<connected_nodes, inflight>>
engineVars == <<sent, replies>>
connVars == <<conn_worker, conn_type>>
logVars == <<allocated, rejected, outcome>>

\* ------------------------------------------------------------ helpers
NoContext == [is_async |-> FALSE, connection_id |-> -1, status |-> kCreated,
              output |-> <<>>, func_name |-> "", method_name |-> "",
              func_id |-> 0, method_id |-> 0]

NoState == [func_call |-> 0, connection_id |-> -1, context |-> 0]

\* A worker that runs no handler.  sampled and processed belong to a run of
\* TryDispatchingPendingFuncCalls: the size of pending when it first held
\* mu_, and the entries it has popped since.
Idle == [pc |-> "idle", call |-> 0, state |-> NoState, node_picked |-> FALSE,
         node_id |-> 0, dispatched |-> FALSE, context |-> 0, type |-> "none",
         payload |-> <<>>, sampled |-> 0, processed |-> 0]

\* FuncCallState: func_call, connection_id (-1 for an asynchronous call) and
\* context (0 for nullptr).
PendingIds == {pending_func_calls_[i].func_call : i \in DOMAIN pending_func_calls_}
RunningIds == {s.func_call : s \in running_func_calls_}

\* running_func_calls_[id] = state
RunningPut(running, state) ==
    {s \in running : s.func_call # state.func_call} \cup {state}

\* ------------------------------------------------------- NodeManager
\* The nodes PickNodeForNewFuncCall may return.
Pickable == {n \in connected_nodes : inflight[n] < MaxInflight}

\* inflight after FuncCallFinished(func_call, node_id)
Released(n) ==
    [inflight EXCEPT ![n] = IF @ > 0 THEN @ - 1 ELSE 0]

\* inflight after a successful PickNodeForNewFuncCall that returned n
Reserved(n) == [inflight EXCEPT ![n] = @ + 1]

\* ------------------------------------------------- client connections
\* The id RegisterConnection gives the next connection.
NextConnectionId == next_http_connection_id_ + next_grpc_connection_id_

\* Server::OnNewHttpConnection: the connection goes to the next I/O worker
\* in turn and is entered into connections_ under mu_.
OnNewHttpConnection ==
    /\ NextConnectionId \in DOMAIN conn_worker
    /\ mu_ = 0
    /\ connections_' = connections_ \cup {NextConnectionId}
    /\ conn_worker' = [conn_worker EXCEPT ![NextConnectionId] =
                           next_http_conn_worker_id_ + 1]
    /\ conn_type' = [conn_type EXCEPT ![NextConnectionId] = "http"]
    /\ next_http_connection_id_' = next_http_connection_id_ + 1
    /\ next_http_conn_worker_id_' =
           (next_http_conn_worker_id_ + 1) % Cardinality(DOMAIN wk)
    /\ UNCHANGED <<next_call_id_, next_grpc_connection_id_,
                   next_grpc_conn_worker_id_, mu_, tableVars, statVars,
                   tickVars, ctx, wk, nodeVars, engineVars, cb,
                   cb_after_discard, picked, fins, discard_returned,
                   send_failed, queued_before, logVars>>

\* Server::OnNewGrpcConnection
OnNewGrpcConnection ==
    /\ NextConnectionId \in DOMAIN conn_worker
    /\ mu_ = 0
    /\ connections_' = connections_ \cup {NextConnectionId}
    /\ conn_worker' = [conn_worker EXCEPT ![NextConnectionId] =
                           next_grpc_conn_worker_id_ + 1]
    /\ conn_type' = [conn_type EXCEPT ![NextConnectionId] = "grpc"]
    /\ next_grpc_connection_id_' = next_grpc_connection_id_ + 1
    /\ next_grpc_conn_worker_id_' =
           (next_grpc_conn_worker_id_ + 1) % Cardinality(DOMAIN wk)
    /\ UNCHANGED <<next_call_id_, next_http_connection_id_,
                   next_http_conn_worker_id_, mu_, tableVars, statVars,
                   tickVars, ctx, wk, nodeVars, engineVars, cb,
                   cb_after_discard, picked, fins, discard_returned,
                   send_failed, queued_before, logVars>>

\* Server::OnConnectionClose for a client connection, run on the
\* connection's worker.  A connection that closes in an orderly way has
\* called DiscardFuncCall for its outstanding calls; one that is cut off has
\* not.
OnConnectionClose(k) ==
    /\ k \in connections_
    /\ wk[conn_worker[k]] = Idle
    /\ mu_ = 0
    /\ connections_' = connections_ \ {k}
    /\ UNCHANGED <<next_call_id_, connIdVars, mu_, tableVars, statVars,
                   tickVars, ctx, wk, nodeVars, engineVars, cb,
                   cb_after_discard, picked, fins, discard_returned,
                   send_failed, queued_before, logVars, connVars>>

\* DiscardedAfterInsert as a switch: a second call takes the id out again.
DiscardedAfterInsert_Toggle(discarded, full_call_id) ==
    IF full_call_id \in discarded
    THEN discarded \ {full_call_id}
    ELSE discarded \cup {full_call_id}

\* discarded_func_calls_ after line 179: absl::flat_hash_set::insert
DiscardedAfterInsert(discarded, full_call_id) == discarded \cup {full_call_id}

\* Server::DiscardFuncCall, called on the connection's worker while the
\* client closes with the call outstanding.
DiscardFuncCall(c) ==
    /\ c < next_call_id_
    /\ ~ctx[c].is_async
    /\ ctx[c].connection_id \in connections_
    /\ wk[conn_worker[ctx[c].connection_id]] = Idle
    /\ cb[c] = 0
    /\ c \notin discard_returned
    /\ mu_ = 0
    /\ discarded_func_calls_' = DiscardedAfterInsert(discarded_func_calls_, c)
    /\ discard_returned' = discard_returned \cup {c}
    /\ UNCHANGED <<serverVars, pending_func_calls_, running_func_calls_,
                   statVars, tickVars, ctx, wk, nodeVars, engineVars, cb,
                   cb_after_discard, picked, fins, send_failed,
                   queued_before, logVars, connVars>>

\* --------------------------------------------------------- callbacks
\* ctx after set_status (and append_output) on the context of call c
SetStatus(c, status, payload) ==
    [ctx EXCEPT ![c].status = status, ![c].output = @ \o payload]

\* Server::FinishFuncCall: the parent connection's OnFuncCallFinished
FinishFuncCall(c) ==
    /\ cb' = [cb EXCEPT ![c] = @ + 1]
    /\ cb_after_discard' = IF c \in discard_returned
                           THEN cb_after_discard \cup {c}
                           ELSE cb_after_discard

\* DispatchFuncCall without line 405: a failed send keeps the reservation.
DispatchFuncCall_NoRelease(c, n, success) ==
    IF success
    THEN /\ sent' = [sent EXCEPT ![c] = n]
         /\ UNCHANGED <<inflight, fins, ctx, cb, cb_after_discard, send_failed>>
    ELSE /\ ctx' = SetStatus(c, kNotFound, <<>>)
         /\ FinishFuncCall(c)
         /\ send_failed' = send_failed \cup {c}
         /\ UNCHANGED <<sent, inflight, fins>>

\* DispatchFuncCall without lines 406-407: a failed send is not reported.
DispatchFuncCall_NoCallback(c, n, success) ==
    IF success
    THEN /\ sent' = [sent EXCEPT ![c] = n]
         /\ UNCHANGED <<inflight, fins, ctx, cb, cb_after_discard, send_failed>>
    ELSE /\ inflight' = Released(n)
         /\ fins' = [fins EXCEPT ![c] = @ + 1]
         /\ send_failed' = send_failed \cup {c}
         /\ UNCHANGED <<sent, ctx, cb, cb_after_discard>>

\* Server::DispatchFuncCall: send; on failure release the node, set
\* kNotFound and finish the call.  success is SendMessage's result.
DispatchFuncCall(c, n, success) ==
    IF success
    THEN /\ sent' = [sent EXCEPT ![c] = n]
         /\ UNCHANGED <<inflight, fins, ctx, cb, cb_after_discard, send_failed>>
    ELSE /\ inflight' = Released(n)
         /\ fins' = [fins EXCEPT ![c] = @ + 1]
         /\ ctx' = SetStatus(c, kNotFound, <<>>)
         /\ FinishFuncCall(c)
         /\ send_failed' = send_failed \cup {c}
         /\ UNCHANGED sent

\* Server::DispatchAsyncFuncCall: send; on failure release the node.
DispatchAsyncFuncCall(c, n, success) ==
    IF success
    THEN /\ sent' = [sent EXCEPT ![c] = n]
         /\ UNCHANGED <<inflight, fins>>
    ELSE /\ inflight' = Released(n)
         /\ fins' = [fins EXCEPT ![c] = @ + 1]
         /\ UNCHANGED sent

\* ------------------------------------------------------- on_new_call
\* The entry find_by_func_name returns when the name is not configured.
NoEntry == [func_id |-> 0, is_grpc_service |-> FALSE, grpc_method_ids |-> <<>>]

\* func_config_.find_by_func_name
FindByFuncName(func_name) ==
    IF func_name \in DOMAIN FuncConfig THEN FuncConfig[func_name] ELSE NoEntry

\* FuncEntryMissing without the test of line 145.
FuncEntryMissing_Never(func_entry) == FALSE

\* Lines 145 and 161: func_entry == nullptr
FuncEntryMissing(func_entry) == func_entry = NoEntry

\* CallIdOf without the narrowing to the width of FuncCall::call_id.
CallIdOf_NoNarrow(counter) == counter

\* The call_id field of the FuncCall built from the counter value.
CallIdOf(counter) == counter % kCallIdModulus

\* next_call_id_ after fetch_add(1).  The uint32_t wraps at 2^32, a multiple
\* of the modulus of call_id, so the call ids are those of a counter that
\* never wraps.
NextCounter(counter) == counter + 1

\* Lines 146-148 and 162-165: the request is finished with kNotFound.
RejectFuncCall(k, func_name, method_name) ==
    /\ Len(rejected) < MaxRejected
    /\ rejected' = Append(rejected, [connection_id |-> k,
                                     func_name |-> func_name,
                                     method_name |-> method_name,
                                     status |-> kNotFound, finished |-> 1])
    /\ UNCHANGED <<serverVars, tableVars, statVars, tickVars, ctx, wk,
                   nodeVars, engineVars, cb, cb_after_discard, picked, fins,
                   discard_returned, send_failed, queued_before, allocated,
                   outcome, connVars>>

\* Lines 150-155 and 166-174: allocate the call id, set the FuncCall of the
\* context and enter OnNewFuncCallCommon, where the local state is built.
AcceptFuncCall(w, k, context) ==
    /\ CallIdOf(next_call_id_) \in DOMAIN ctx
    /\ LET c == CallIdOf(next_call_id_)
       IN /\ next_call_id_' = NextCounter(next_call_id_)
          /\ allocated' = Append(allocated, c)
          /\ ctx' = [ctx EXCEPT ![c] = context]
          /\ queued_before' = [queued_before EXCEPT ![c] = PendingIds]
          /\ wk' = [wk EXCEPT ![w] =
                 [Idle EXCEPT !.pc = "new_pick", !.call = c,
                    !.state = [func_call |-> c,
                               connection_id |-> IF context.is_async
                                                 THEN -1 ELSE k,
                               context |-> IF context.is_async THEN 0 ELSE c]]]
    /\ UNCHANGED <<connIdVars, mu_, connections_, tableVars, statVars,
                   tickVars, nodeVars, engineVars, cb, cb_after_discard,
                   picked, fins, discard_returned, send_failed, rejected,
                   outcome, connVars>>

\* Server::OnNewHttpFuncCall
OnNewHttpFuncCall(w, k, func_name, is_async) ==
    /\ wk[w] = Idle
    /\ k \in connections_
    /\ conn_worker[k] = w
    /\ conn_type[k] = "http"
    /\ \A c \in discard_returned : ctx[c].connection_id # k
    /\ LET func_entry == FindByFuncName(func_name)
       IN IF FuncEntryMissing(func_entry)
          THEN RejectFuncCall(k, func_name, "")
          ELSE AcceptFuncCall(w, k,
                   [is_async |-> is_async, connection_id |-> k,
                    status |-> kCreated, output |-> <<>>,
                    func_name |-> func_name, method_name |-> "",
                    func_id |-> func_entry.func_id, method_id |-> 0])

\* Server::OnNewGrpcFuncCall
OnNewGrpcFuncCall(w, k, func_name, method_name) ==
    /\ wk[w] = Idle
    /\ k \in connections_
    /\ conn_worker[k] = w
    /\ conn_type[k] = "grpc"
    /\ \A c \in discard_returned : ctx[c].connection_id # k
    /\ LET func_entry == FindByFuncName(func_name)
       IN IF \/ FuncEntryMissing(func_entry)
             \/ ~func_entry.is_grpc_service
             \/ method_name \notin DOMAIN func_entry.grpc_method_ids
          THEN RejectFuncCall(k, func_name, method_name)
          ELSE AcceptFuncCall(w, k,
                   [is_async |-> FALSE, connection_id |-> k,
                    status |-> kCreated, output |-> <<>>,
                    func_name |-> func_name, method_name |-> method_name,
                    func_id |-> func_entry.func_id,
                    method_id |-> func_entry.grpc_method_ids[method_name]])

\* outcome with what the step of on_new_call for call c has just done
Done(c, what) == [outcome EXCEPT ![c] = @ \cup what]

\* OnNewFuncCallCommon, line 344: node_manager_.PickNodeForNewFuncCall
NewCallPick(w) ==
    /\ wk[w].pc = "new_pick"
    /\ IF Pickable = {}
       THEN /\ wk' = [wk EXCEPT ![w].pc = "new_lock"]
            /\ UNCHANGED <<inflight, picked, outcome>>
       ELSE \E n \in Pickable :
            /\ inflight' = Reserved(n)
            /\ picked' = [picked EXCEPT ![wk[w].call] = n]
            /\ outcome' = Done(wk[w].call, {"picked"})
            /\ wk' = [wk EXCEPT ![w].pc = "new_lock", ![w].node_picked = TRUE,
                                ![w].node_id = n]
    /\ UNCHANGED <<serverVars, tableVars, statVars, tickVars, ctx,
                   connected_nodes, engineVars, cb, cb_after_discard, fins,
                   discard_returned, send_failed, queued_before, allocated,
                   rejected, connVars>>

\* PendingAfterNewCall without the test of line 361: every call is queued.
PendingAfterNewCall_Always(pending, state, node_picked) ==
    Append(pending, state)

\* pending_func_calls_ after the block under mu_ of OnNewFuncCallCommon
PendingAfterNewCall(pending, state, node_picked) ==
    IF ~node_picked THEN Append(pending, state) ELSE pending

\* BumpedTimestamp without lines 349-351 and 321-323.
BumpedTimestamp_AsRead(current_timestamp, last) == current_timestamp

\* Lines 349-351 and 321-323: a reading that is not later than the last
\* request's timestamp is moved just past it.
BumpedTimestamp(current_timestamp, last) ==
    IF current_timestamp <= last THEN last + 1 ELSE current_timestamp

\* PerFuncStat::PerFuncStat
NewPerFuncStat == [last_request_timestamp |-> -1, incoming_requests_stat |-> 0,
                   request_interval_stat |-> 0, end2end_delay_stat |-> 0]

\* per_func_stats_ after Server::TickNewFuncCall(func_id, current_timestamp);
\* global_last is last_request_timestamp_, which line 359 has just set.
TickNewFuncCall(stats, func_id, current_timestamp, global_last) ==
    LET created == IF func_id \in DOMAIN stats
                   THEN stats
                   ELSE (func_id :> NewPerFuncStat) @@ stats
        stat == created[func_id]
    IN [created EXCEPT ![func_id] =
           [last_request_timestamp |->
                BumpedTimestamp(current_timestamp, stat.last_request_timestamp),
            incoming_requests_stat |-> stat.incoming_requests_stat + 1,
            request_interval_stat |->
                stat.request_interval_stat + (IF global_last # -1 THEN 1 ELSE 0),
            end2end_delay_stat |-> stat.end2end_delay_stat]]

\* OnNewFuncCallCommon, lines 345-372: under mu_, stamp the request and queue
\* the call when no node was picked.  now is what GetMonotonicMicroTimestamp
\* returns.  A synchronous call that was queued has nothing left to do.
NewCallLock(w, now) ==
    /\ wk[w].pc = "new_lock"
    /\ mu_ = 0
    /\ LET current_timestamp == BumpedTimestamp(now, last_request_timestamp_)
       IN /\ incoming_requests_stat_' = incoming_requests_stat_ + 1
          /\ request_interval_stat_' =
                 request_interval_stat_
                     + (IF last_request_timestamp_ # -1 THEN 1 ELSE 0)
          /\ last_request_timestamp_' = current_timestamp
          /\ per_func_stats_' =
                 TickNewFuncCall(per_func_stats_, ctx[wk[w].call].func_id,
                                 current_timestamp, current_timestamp)
    /\ pending_func_calls_' =
           PendingAfterNewCall(pending_func_calls_, wk[w].state, wk[w].node_picked)
    /\ outcome' = Done(wk[w].call,
                       IF pending_func_calls_' # pending_func_calls_
                       THEN {"pending"} ELSE {})
    /\ wk' = [wk EXCEPT ![w] =
                 IF ~wk[w].node_picked /\ wk[w].state.connection_id # -1
                 THEN Idle
                 ELSE [@ EXCEPT !.pc = "new_dispatch"]]
    /\ UNCHANGED <<serverVars, running_func_calls_, discarded_func_calls_,
                   statVars, ctx, nodeVars, engineVars, cb, cb_after_discard,
                   picked, fins, discard_returned, send_failed,
                   queued_before, allocated, rejected, connVars>>

\* AsyncStatus without the kNotFound of line 381.
AsyncStatus_AlwaysSuccess(node_picked, success) == kSuccess

\* OnNewFuncCallCommon, lines 374-382: the status of an asynchronous call,
\* success being the result of DispatchAsyncFuncCall when a node was picked.
AsyncStatus(node_picked, success) ==
    IF ~node_picked \/ success THEN kSuccess ELSE kNotFound

\* OnNewFuncCallCommon, lines 373-387: dispatch outside the lock.
NewCallDispatch(w, success) ==
    /\ wk[w].pc = "new_dispatch"
    /\ LET c == wk[w].call
           n == wk[w].node_id
       IN /\ IF ctx[c].is_async
             THEN /\ wk[w].node_picked \/ success
                  /\ IF wk[w].node_picked
                     THEN DispatchAsyncFuncCall(c, n, success)
                     ELSE UNCHANGED <<sent, inflight, fins>>
                  /\ ctx' = SetStatus(c, AsyncStatus(wk[w].node_picked, success),
                                      <<>>)
                  /\ FinishFuncCall(c)
                  /\ UNCHANGED send_failed
                  /\ wk' = [wk EXCEPT ![w] =
                               IF wk[w].node_picked /\ success
                               THEN [@ EXCEPT !.pc = "new_record",
                                              !.dispatched = TRUE]
                               ELSE Idle]
             ELSE /\ DispatchFuncCall(c, n, success)
                  /\ wk' = [wk EXCEPT ![w] =
                               IF success
                               THEN [@ EXCEPT !.pc = "new_record",
                                              !.dispatched = TRUE]
                               ELSE Idle]
          /\ outcome' = Done(c, (IF sent'[c] # sent[c] THEN {"sent"} ELSE {})
                                \cup (IF cb'[c] # cb[c] THEN {"callback"} ELSE {}))
    /\ UNCHANGED <<serverVars, tableVars, statVars, tickVars, connected_nodes,
                   replies, picked, discard_returned, queued_before, allocated,
                   rejected, connVars>>

\* OnNewFuncCallCommon, lines 388-395: record the dispatched call as running.
NewCallRecord(w) ==
    /\ wk[w].pc = "new_record"
    /\ mu_ = 0
    /\ running_func_calls_' = RunningPut(running_func_calls_, wk[w].state)
    /\ running_requests_stat_' = running_requests_stat_ + 1
    /\ outcome' = Done(wk[w].call,
                       IF wk[w].state \in running_func_calls_'
                       THEN {"running"} ELSE {})
    /\ wk' = [wk EXCEPT ![w] = Idle]
    /\ UNCHANGED <<serverVars, pending_func_calls_, discarded_func_calls_,
                   queueing_delay_stat_, dispatch_overhead_stat_, tickVars,
                   ctx, nodeVars, engineVars, cb, cb_after_discard, picked,
                   fins, discard_returned, send_failed, queued_before,
                   allocated, rejected, connVars>>

\* ------------------------------------------------------ drain_pending
\* TryDispatchingPendingFuncCalls, lines 188-204, with mu_ held: pop the
\* front entries, dropping the discarded ones and the synchronous ones whose
\* connection is gone, up to the first entry to dispatch (NoState when the
\* queue runs empty).
\* ConnectionGone with the test of lines 198-201 left out.
ConnectionGone_Never(state, conns) == FALSE

\* TryDispatchingPendingFuncCalls, lines 196-201: a synchronous call whose
\* parent connection is no longer in connections_
ConnectionGone(state, conns) ==
    state.connection_id # -1 /\ state.connection_id \notin conns

RECURSIVE DrainScan(_, _, _)
DrainScan(pending, discarded, conns) ==
    IF pending = <<>>
    THEN [pending |-> pending, discarded |-> discarded, state |-> NoState]
    ELSE LET state == Head(pending)
         IN IF state.func_call \in discarded
            THEN DrainScan(Tail(pending), discarded \ {state.func_call}, conns)
            ELSE IF ConnectionGone(state, conns)
            THEN DrainScan(Tail(pending), discarded, conns)
            ELSE [pending |-> Tail(pending), discarded |-> discarded,
                  state |-> state]

\* The worker after the scan: on to the pick with the popped entry, or out of
\* TryDispatchingPendingFuncCalls (line 230) and of the handler that called it.
AfterScan(scan) ==
    IF scan.state = NoState
    THEN Idle
    ELSE [Idle EXCEPT !.pc = "drain_pick", !.call = scan.state.func_call,
                      !.state = scan.state]

\* The worker record with the counts of the drain it is in.
Counted(worker, sampled, processed) ==
    IF worker = Idle
    THEN Idle
    ELSE [worker EXCEPT !.sampled = sampled, !.processed = processed]

\* MuAfterDrainBlock without the Unlock of line 204.
MuAfterDrainBlock_Keep(w, state) == IF state = NoState THEN 0 ELSE w

\* mu_ when worker w leaves a locked stretch of
\* TryDispatchingPendingFuncCalls with state to dispatch (Unlock of line 204)
\* or with nothing left to do (Unlock of line 230).
MuAfterDrainBlock(w, state) == 0

\* TryDispatchingPendingFuncCalls, lines 187-204: first pass of the loop.
DrainEnter(w) ==
    /\ wk[w].pc = "drain"
    /\ mu_ = 0
    /\ LET scan == DrainScan(pending_func_calls_, discarded_func_calls_,
                             connections_)
       IN /\ pending_func_calls_' = scan.pending
          /\ discarded_func_calls_' = scan.discarded
          /\ mu_' = MuAfterDrainBlock(w, scan.state)
          /\ wk' = [wk EXCEPT ![w] =
                       Counted(AfterScan(scan), Len(pending_func_calls_),
                               Len(pending_func_calls_) - Len(scan.pending))]
    /\ UNCHANGED <<next_call_id_, connIdVars, connections_,
                   running_func_calls_, statVars, tickVars, ctx, nodeVars,
                   engineVars, cb, cb_after_discard, picked, fins,
                   discard_returned, send_failed, queued_before, logVars,
                   connVars>>

\* TryDispatchingPendingFuncCalls, line 206
DrainPick(w) ==
    /\ wk[w].pc = "drain_pick"
    /\ IF Pickable = {}
       THEN /\ wk' = [wk EXCEPT ![w].pc = "drain_relock"]
            /\ UNCHANGED <<inflight, picked>>
       ELSE \E n \in Pickable :
            /\ inflight' = Reserved(n)
            /\ picked' = [picked EXCEPT ![wk[w].call] = n]
            /\ wk' = [wk EXCEPT ![w].pc = "drain_send", ![w].node_picked = TRUE,
                                ![w].node_id = n]
    /\ UNCHANGED <<serverVars, tableVars, statVars, tickVars, ctx,
                   connected_nodes, engineVars, cb, cb_after_discard, fins,
                   discard_returned, send_failed, queued_before, logVars,
                   connVars>>

\* TryDispatchingPendingFuncCalls, lines 208-215
DrainSend(w, success) ==
    /\ wk[w].pc = "drain_send"
    /\ IF wk[w].state.connection_id = -1
       THEN /\ DispatchAsyncFuncCall(wk[w].call, wk[w].node_id, success)
            /\ UNCHANGED <<ctx, cb, cb_after_discard, send_failed>>
       ELSE DispatchFuncCall(wk[w].call, wk[w].node_id, success)
    /\ wk' = [wk EXCEPT ![w].pc = "drain_relock", ![w].dispatched = success]
    /\ UNCHANGED <<serverVars, tableVars, statVars, tickVars, connected_nodes,
                   replies, picked, discard_returned, queued_before, logVars,
                   connVars>>

\* running_func_calls_ after lines 224-228
RunningAfterDrain(running, state, dispatched) ==
    IF dispatched THEN RunningPut(running, state) ELSE running

\* queueing_delay_stat_ after lines 221-223
QueueingDelayAfterDrain(samples, dispatched) == samples + 1

\* TryDispatchingPendingFuncCalls, lines 216-229 and on through the next
\* passes of the loop to the next Unlock.
DrainRelock(w) ==
    /\ wk[w].pc = "drain_relock"
    /\ mu_ = 0
    /\ IF ~wk[w].node_picked
       THEN /\ pending_func_calls_' = <<wk[w].state>> \o pending_func_calls_
            /\ mu_' = MuAfterDrainBlock(w, NoState)
            /\ wk' = [wk EXCEPT ![w] = Idle]
            /\ UNCHANGED <<running_func_calls_, discarded_func_calls_, statVars>>
       ELSE LET scan == DrainScan(pending_func_calls_, discarded_func_calls_,
                                  connections_)
            IN /\ queueing_delay_stat_' =
                      QueueingDelayAfterDrain(queueing_delay_stat_, wk[w].dispatched)
               /\ running_func_calls_' =
                      RunningAfterDrain(running_func_calls_, wk[w].state,
                                        wk[w].dispatched)
               /\ running_requests_stat_' =
                      running_requests_stat_ + (IF wk[w].dispatched THEN 1 ELSE 0)
               /\ pending_func_calls_' = scan.pending
               /\ discarded_func_calls_' = scan.discarded
               /\ mu_' = MuAfterDrainBlock(w, scan.state)
               /\ wk' = [wk EXCEPT ![w] =
                            Counted(AfterScan(scan), wk[w].sampled,
                                    wk[w].processed + Len(pending_func_calls_)
                                        - Len(scan.pending))]
               /\ UNCHANGED dispatch_overhead_stat_
    /\ UNCHANGED <<next_call_id_, connIdVars, connections_, tickVars, ctx,
                   nodeVars, engineVars, cb, cb_after_discard, picked, fins,
                   discard_returned, send_failed, queued_before, logVars,
                   connVars>>

\* Server::OnNewConnectedNode: the NodeManager has registered node n and the
\* worker of the engine connection drains the queue.
OnNewConnectedNode(w, n) ==
    /\ wk[w] = Idle
    /\ n \notin connected_nodes
    /\ connected_nodes' = connected_nodes \cup {n}
    /\ wk' = [wk EXCEPT ![w].pc = "drain"]
    /\ UNCHANGED <<serverVars, tableVars, statVars, tickVars, ctx, inflight,
                   engineVars, cb, cb_after_discard, picked, fins,
                   discard_returned, send_failed, queued_before, logVars,
                   connVars>>

\* ------------------------------------------------------- engine reply
\* Replies the engines have sent beyond one per call
DuplicateReplies ==
    LET RECURSIVE Sum(_)
        Sum(calls) == IF calls = {} THEN 0
                      ELSE LET c == CHOOSE x \in calls : TRUE
                           IN Sum(calls \ {c})
                                  + (IF replies[c] > 1 THEN replies[c] - 1 ELSE 0)
    IN Sum(DOMAIN replies)

\* Server::OnRecvEngineMessage with a FuncCallComplete or FuncCallFailed
\* message for call c from the node it was sent to, up to line 239 of
\* HandleFuncCallCompleteOrFailedMessage: FuncCallFinished.
OnRecvEngineMessage(w, c, type, payload) ==
    /\ wk[w] = Idle
    /\ sent[c] # 0
    /\ replies[c] = 0 \/ DuplicateReplies < MaxDuplicateReplies
    /\ replies' = [replies EXCEPT ![c] = @ + 1]
    /\ inflight' = Released(sent[c])
    /\ fins' = [fins EXCEPT ![c] = @ + 1]
    /\ wk' = [wk EXCEPT ![w] = [Idle EXCEPT !.pc = "handle_lock", !.call = c,
                                   !.node_id = sent[c], !.type = type,
                                   !.payload = payload]]
    /\ UNCHANGED <<serverVars, tableVars, statVars, tickVars, ctx,
                   connected_nodes, sent, cb, cb_after_discard, picked,
                   discard_returned, send_failed, queued_before, logVars,
                   connVars>>

\* The state of call c in running_func_calls_
RunningState(c) == CHOOSE s \in running_func_calls_ : s.func_call = c

\* ContextToFinish without the test of discarded at line 254.
ContextToFinish_IgnoreDiscarded(state, discarded, conns) ==
    IF state.connection_id # -1 /\ state.connection_id \in conns
    THEN state.context
    ELSE 0

\* HandleFuncCallCompleteOrFailedMessage, lines 254-260: the context to finish,
\* 0 for nullptr
ContextToFinish(state, discarded, conns) ==
    IF state.connection_id # -1 /\ state.func_call \notin discarded
       /\ state.connection_id \in conns
    THEN state.context
    ELSE 0

\* DispatchOverheadAfterReply with the sample taken before the test of
\* line 245.
DispatchOverheadAfterReply_Always(samples, found) == samples + 1

\* dispatch_overhead_stat_ after lines 245-266; found tells whether the call
\* of the message is in running_func_calls_.
DispatchOverheadAfterReply(samples, found) ==
    IF found THEN samples + 1 ELSE samples

\* per_func_stats_ after lines 245-273: a FuncCallComplete for a running
\* asynchronous call adds an end2end_delay sample for its function.
End2EndAfterReply(stats, found, async_call, type, func_id) ==
    IF found /\ async_call /\ type = "FuncCallComplete"
    THEN [stats EXCEPT ![func_id].end2end_delay_stat = @ + 1]
    ELSE stats

\* RunningAfterReply without the erase of line 274.
RunningAfterReply_Keep(running, full_call_id) == running

\* running_func_calls_ after line 274
RunningAfterReply(running, full_call_id) ==
    {s \in running : s.func_call # full_call_id}

\* HandleFuncCallCompleteOrFailedMessage, lines 243-275 under mu_.  A reply
\* for a call that is not running returns at line 248.  With no context to
\* finish, lines 276-292 change nothing and the worker is at line 293.
HandleLock(w) ==
    /\ wk[w].pc = "handle_lock"
    /\ mu_ = 0
    /\ LET c == wk[w].call
       IN IF c \notin RunningIds
          THEN /\ wk' = [wk EXCEPT ![w] = Idle]
               /\ dispatch_overhead_stat_' =
                      DispatchOverheadAfterReply(dispatch_overhead_stat_, FALSE)
               /\ per_func_stats_' =
                      End2EndAfterReply(per_func_stats_, FALSE, FALSE,
                                        wk[w].type, ctx[c].func_id)
               /\ UNCHANGED <<tableVars, queueing_delay_stat_,
                              running_requests_stat_>>
          ELSE LET state == RunningState(c)
                   context == ContextToFinish(state, discarded_func_calls_,
                                              connections_)
               IN /\ discarded_func_calls_' = discarded_func_calls_ \ {c}
                  /\ dispatch_overhead_stat_' =
                         DispatchOverheadAfterReply(dispatch_overhead_stat_, TRUE)
                  /\ per_func_stats_' =
                         End2EndAfterReply(per_func_stats_, TRUE,
                                           state.connection_id = -1,
                                           wk[w].type, ctx[c].func_id)
                  /\ running_func_calls_' =
                         RunningAfterReply(running_func_calls_, c)
                  /\ wk' = [wk EXCEPT ![w] =
                               IF context = 0
                               THEN [Idle EXCEPT !.pc = "drain"]
                               ELSE [@ EXCEPT !.pc = "handle_finish",
                                              !.context = context]]
                  /\ UNCHANGED <<pending_func_calls_, queueing_delay_stat_,
                                 running_requests_stat_>>
    /\ UNCHANGED <<serverVars, last_request_timestamp_,
                   incoming_requests_stat_, request_interval_stat_, ctx,
                   nodeVars, engineVars, cb, cb_after_discard, picked, fins,
                   discard_returned, send_failed, queued_before, logVars,
                   connVars>>

\* ContextAfterReply with append_output on both branches.
ContextAfterReply_AppendAlways(context, type, payload) ==
    SetStatus(context, IF type = "FuncCallComplete" THEN kSuccess ELSE kFailed,
              payload)

\* ctx after lines 283-290: the result of the reply goes into the context.
ContextAfterReply(context, type, payload) ==
    IF type = "FuncCallComplete"
    THEN SetStatus(context, kSuccess, payload)
    ELSE SetStatus(context, kFailed, <<>>)

\* HandleFuncCallCompleteOrFailedMessage, lines 282-292: hand the result to
\* the parent connection; line 293 is next.
HandleFinish(w) ==
    /\ wk[w].pc = "handle_finish"
    /\ ctx' = ContextAfterReply(wk[w].context, wk[w].type, wk[w].payload)
    /\ FinishFuncCall(wk[w].context)
    /\ wk' = [wk EXCEPT ![w] = [Idle EXCEPT !.pc = "drain"]]
    /\ UNCHANGED <<serverVars, tableVars, statVars, tickVars, nodeVars,
                   engineVars, picked, fins, discard_returned, send_failed,
                   queued_before, logVars, connVars>>

\* ------------------------------------------------------ specification
\* The state after Server::Server and StartInternal, but for the call id
\* counter, with the given call contexts, I/O workers, nodes and connection
\* ids to come.
InitRest(calls, workers, nodes, conns) ==
    /\ next_http_connection_id_ = 0
    /\ next_http_conn_worker_id_ = 0
    /\ next_grpc_connection_id_ = 0
    /\ next_grpc_conn_worker_id_ = 0
    /\ mu_ = 0
    /\ connections_ = {}
    /\ pending_func_calls_ = <<>>
    /\ running_func_calls_ = {}
    /\ discarded_func_calls_ = {}
    /\ queueing_delay_stat_ = 0
    /\ running_requests_stat_ = 0
    /\ dispatch_overhead_stat_ = 0
    /\ last_request_timestamp_ = -1
    /\ per_func_stats_ = <<>>
    /\ incoming_requests_stat_ = 0
    /\ request_interval_stat_ = 0
    /\ ctx = [c \in calls |-> NoContext]
    /\ wk = [w \in workers |-> Idle]
    /\ connected_nodes = {}
    /\ inflight = [n \in nodes |-> 0]
    /\ sent = [c \in calls |-> 0]
    /\ replies = [c \in calls |-> 0]
    /\ cb = [c \in calls |-> 0]
    /\ cb_after_discard = {}
    /\ picked = [c \in calls |-> 0]
    /\ fins = [c \in calls |-> 0]
    /\ discard_returned = {}
    /\ send_failed = {}
    /\ queued_before = [c \in calls |-> {}]
    /\ allocated = <<>>
    /\ rejected = <<>>
    /\ outcome = [c \in calls |-> {}]
    /\ conn_worker = [k \in conns |-> 0]
    /\ conn_type = [k \in conns |-> "none"]

Init ==
    /\ next_call_id_ = 1
    /\ InitRest(Calls, Workers, Nodes, Conns)

\* The steps that depend neither on the request's names nor on the clock.
Handlers ==
    \/ OnNewHttpConnection
    \/ \E k \in DOMAIN conn_worker : OnConnectionClose(k)
    \/ \E c \in DOMAIN ctx : DiscardFuncCall(c)
    \/ \E w \in DOMAIN wk : NewCallPick(w)
    \/ \E w \in DOMAIN wk, success \in BOOLEAN : NewCallDispatch(w, success)
    \/ \E w \in DOMAIN wk : NewCallRecord(w)
    \/ \E w \in DOMAIN wk, n \in DOMAIN inflight : OnNewConnectedNode(w, n)
    \/ \E w \in DOMAIN wk : DrainEnter(w)
    \/ \E w \in DOMAIN wk : DrainPick(w)
    \/ \E w \in DOMAIN wk, success \in BOOLEAN : DrainSend(w, success)
    \/ \E w \in DOMAIN wk : DrainRelock(w)
    \/ \E w \in DOMAIN wk, c \in DOMAIN ctx, type \in MessageTypes,
          payload \in Payloads : OnRecvEngineMessage(w, c, type, payload)
    \/ \E w \in DOMAIN wk : HandleLock(w)
    \/ \E w \in DOMAIN wk : HandleFinish(w)

\* HTTP calls of the function "hello" under a clock that stands still.
Next ==
    \/ Handlers
    \/ \E w \in DOMAIN wk, k \in DOMAIN conn_worker, is_async \in BOOLEAN :
           OnNewHttpFuncCall(w, k, "hello", is_async)
    \/ \E w \in DOMAIN wk : NewCallLock(w, 0)

Spec == Init /\ [][Next]_vars

\* What an I/O worker does once a handler has started: every step but the
\* events that start one (a new call, a node connection, an engine reply).
WorkerStep(w) ==
    \/ NewCallPick(w)
    \/ NewCallLock(w, 0)
    \/ \E success \in BOOLEAN : NewCallDispatch(w, success)
    \/ NewCallRecord(w)
    \/ DrainEnter(w)
    \/ DrainPick(w)
    \/ \E success \in BOOLEAN : DrainSend(w, success)
    \/ DrainRelock(w)
    \/ HandleLock(w)
    \/ HandleFinish(w)

\* Each I/O worker runs its event loop: a handler that has started and can
\* take a step takes it.
FairSpec == Spec /\ \A w \in Workers : WF_vars(WorkerStep(w))

\* Every kind of request on one connection, HTTP or gRPC, and a clock whose
\* readings may repeat or go back.
RequestInit ==
    /\ next_call_id_ = 1
    /\ InitRest(Calls, Workers, Nodes, {0})

RequestNext ==
    \/ Handlers
    \/ OnNewGrpcConnection
    \/ \E w \in DOMAIN wk, k \in DOMAIN conn_worker, func_name \in FuncNames,
          is_async \in BOOLEAN : OnNewHttpFuncCall(w, k, func_name, is_async)
    \/ \E w \in DOMAIN wk, k \in DOMAIN conn_worker, func_name \in FuncNames,
          method_name \in MethodNames :
           OnNewGrpcFuncCall(w, k, func_name, method_name)
    \/ \E w \in DOMAIN wk, now \in Clock : NewCallLock(w, now)

RequestSpec == RequestInit /\ [][RequestNext]_vars

\* A gateway with one more I/O worker and two more call contexts than Spec,
\* taken from the point where its one connection, registered with worker 1,
\* has made two synchronous calls of "hello" before any node has connected:
\* both are in pending, in the order of their arrival.
DrainCalls == 1..(MaxCalls + 2)
DrainWorkers == 1..(NumWorkers + 1)

QueuedContext == [is_async |-> FALSE, connection_id |-> 0, status |-> kCreated,
                  output |-> <<>>, func_name |-> "hello", method_name |-> "",
                  func_id |-> 1, method_id |-> 0]

DrainInit ==
    /\ next_call_id_ = 3
    /\ next_http_connection_id_ = 1
    /\ next_http_conn_worker_id_ = 1
    /\ next_grpc_connection_id_ = 0
    /\ next_grpc_conn_worker_id_ = 0
    /\ mu_ = 0
    /\ connections_ = {0}
    /\ pending_func_calls_ =
           <<[func_call |-> 1, connection_id |-> 0, context |-> 1],
             [func_call |-> 2, connection_id |-> 0, context |-> 2]>>
    /\ running_func_calls_ = {}
    /\ discarded_func_calls_ = {}
    /\ queueing_delay_stat_ = 0
    /\ running_requests_stat_ = 0
    /\ dispatch_overhead_stat_ = 0
    /\ last_request_timestamp_ = 1
    /\ per_func_stats_ = (1 :> [last_request_timestamp |-> 1,
                                incoming_requests_stat |-> 2,
                                request_interval_stat |-> 2,
                                end2end_delay_stat |-> 0])
    /\ incoming_requests_stat_ = 2
    /\ request_interval_stat_ = 1
    /\ ctx = [c \in DrainCalls |-> IF c <= 2 THEN QueuedContext ELSE NoContext]
    /\ wk = [w \in DrainWorkers |-> Idle]
    /\ connected_nodes = {}
    /\ inflight = [n \in Nodes |-> 0]
    /\ sent = [c \in DrainCalls |-> 0]
    /\ replies = [c \in DrainCalls |-> 0]
    /\ cb = [c \in DrainCalls |-> 0]
    /\ cb_after_discard = {}
    /\ picked = [c \in DrainCalls |-> 0]
    /\ fins = [c \in DrainCalls |-> 0]
    /\ discard_returned = {}
    /\ send_failed = {}
    /\ queued_before = [c \in DrainCalls |-> IF c = 2 THEN {1} ELSE {}]
    /\ allocated = <<1, 2>>
    /\ rejected = <<>>
    /\ outcome = [c \in DrainCalls |-> IF c <= 2 THEN {"pending"} ELSE {}]
    /\ conn_worker = [k \in {0} |-> 1]
    /\ conn_type = [k \in {0} |-> "http"]

\* The connection stays open and goes on making synchronous calls of "hello";
\* nodes connect, every send succeeds, and the engine answers each call once
\* with FuncCallComplete.
DrainNext ==
    \/ \E w \in DOMAIN wk, k \in DOMAIN conn_worker :
           OnNewHttpFuncCall(w, k, "hello", FALSE)
    \/ \E w \in DOMAIN wk : NewCallPick(w)
    \/ \E w \in DOMAIN wk : NewCallLock(w, 0)
    \/ \E w \in DOMAIN wk : NewCallDispatch(w, TRUE)
    \/ \E w \in DOMAIN wk : NewCallRecord(w)
    \/ \E w \in DOMAIN wk, n \in DOMAIN inflight : OnNewConnectedNode(w, n)
    \/ \E w \in DOMAIN wk : DrainEnter(w)
    \/ \E w \in DOMAIN wk : DrainPick(w)
    \/ \E w \in DOMAIN wk : DrainSend(w, TRUE)
    \/ \E w \in DOMAIN wk, c \in DOMAIN ctx, payload \in Payloads :
           /\ replies[c] = 0
           /\ OnRecvEngineMessage(w, c, "FuncCallComplete", payload)
    \/ \E w \in DOMAIN wk : DrainRelock(w)
    \/ \E w \in DOMAIN wk : HandleLock(w)
    \/ \E w \in DOMAIN wk : HandleFinish(w)

DrainSpec == DrainInit /\ [][DrainNext]_vars

\* The same gateway from its construction.
DrainBaseInit ==
    /\ next_call_id_ = 1
    /\ InitRest(DrainCalls, DrainWorkers, Nodes, {0})

DrainBaseSpec == DrainBaseInit /\ [][Next]_vars

\* The call id counter alone.  Every value is one the counter reaches, so a
\* run may start from any of them: just after construction and on either
\* side of the value at which call_id wraps.  The other variables stay as
\* constructed and play no part.
StartCounters ==
    (1..(2 * WrapMargin))
        \cup ((kCallIdModulus - 2 * WrapMargin)..(kCallIdModulus + 2 * WrapMargin - 1))

CounterInit ==
    /\ next_call_id_ \in StartCounters
    /\ InitRest(Calls, Workers, Nodes, Conns)

\* Lines 150-152 and 166-170 by themselves: fetch_add on next_call_id_ by
\* worker w and the call_id of the FuncCall built from the value.
AllocateCallId(w) ==
    /\ Len(allocated) < MaxAllocated
    /\ next_call_id_' = NextCounter(next_call_id_)
    /\ allocated' = Append(allocated, CallIdOf(next_call_id_))
    /\ UNCHANGED <<connIdVars, mu_, connections_, tableVars, statVars,
                   tickVars, ctx, wk, nodeVars, engineVars, cb,
                   cb_after_discard, picked, fins, discard_returned,
                   send_failed, queued_before, rejected, outcome, connVars>>

CounterNext == \E w \in DOMAIN wk : AllocateCallId(w)

CounterSpec == CounterInit /\ [][CounterNext]_vars

\* ------------------------------------------------------------- claims
AllIdle == \A w \in Workers : wk[w] = Idle

\* A pending entry that drain would not drop.
LiveState(state) ==
    /\ state.func_call \notin discarded_func_calls_
    /\ state.connection_id # -1 => state.connection_id \in connections_

LivePending ==
    {pending_func_calls_[i].func_call :
        i \in {j \in DOMAIN pending_func_calls_ : LiveState(pending_func_calls_[j])}}

\* The call holds a reservation: picked, and not yet released.
HoldsReservation(c) == picked[c] # 0 /\ fins[c] = 0

\* Worker w steps out of position pc.
StepsFrom(w, pc) == wk[w].pc = pc /\ wk'[w] # wk[w]

\* C1 (as claimed): once DiscardFuncCall(id) has returned, the parent
\* connection's OnFuncCallFinished is never invoked for that id.
C1_DiscardSafety == cb_after_discard = {}

\* C2 (as claimed): when the first engine reply for a synchronous call whose
\* send succeeded is handled while its connection is in connections_ and its
\* id is not in discarded, the handler finds the call in running, removes it
\* and goes on to invoke the completion callback.
C2_ReplyHandBack ==
    [][\A w \in Workers :
          (/\ StepsFrom(w, "handle_lock")
           /\ replies[wk[w].call] = 1
           /\ ~ctx[wk[w].call].is_async
           /\ ctx[wk[w].call].connection_id \in connections_
           /\ wk[w].call \notin discarded_func_calls_)
          => (/\ wk[w].call \in RunningIds
              /\ wk[w].call \notin {s.func_call : s \in running_func_calls_'}
              /\ wk'[w].pc = "handle_finish"
              /\ wk'[w].context = wk[w].call)]_vars

\* C3 (as claimed): every successful pick for a call is matched by at most
\* one FuncCallFinished, and by exactly one once the call has left the table
\* and no worker handles it any more.
C3_ReservationBalance ==
    \A c \in Calls :
        /\ fins[c] <= (IF picked[c] # 0 THEN 1 ELSE 0)
        /\ (/\ picked[c] # 0
            /\ c \notin PendingIds \cup RunningIds
            /\ \A w \in Workers : wk[w].call # c
            /\ sent[c] = 0 \/ replies[c] > 0) => fins[c] = 1

\* C4 (as claimed): no DispatchFuncCall send is issued for a call B while a
\* call A that was in pending when B arrived is still in pending, not
\* discarded and, if synchronous, with its connection in connections_.
C4_NoOvertaking ==
    [][\A w \in Workers :
          (/\ StepsFrom(w, "new_dispatch") \/ StepsFrom(w, "drain_send")
           /\ wk[w].node_picked)
          => queued_before[wk[w].call] \cap LivePending = {}]_vars

\* C5 (as claimed, in the form a finite run refutes): when every worker has
\* returned, so that only a new call, a node connection or an engine reply
\* can start another drain, no live call is left in pending with a node
\* pickable.
C5_NoStrandedCall == AllIdle => (LivePending = {} \/ Pickable = {})

\* C5 (as claimed): under weak fairness of the workers, a live call in
\* pending with a node pickable leaves pending (or the node stops being
\* pickable) without any further event.
C5_DrainLiveness ==
    \A c \in Calls :
        (c \in LivePending /\ Pickable # {}) ~> (c \notin LivePending \/ Pickable = {})

\* C6: no id is both in pending and in running, and no id occurs twice in
\* pending.
C6_Disjoint ==
    /\ PendingIds \cap RunningIds = {}
    /\ Cardinality(PendingIds) = Len(pending_func_calls_)
    /\ Cardinality(RunningIds) = Cardinality(running_func_calls_)

\* A call waits in pending while another one is running.
C6_Witness == PendingIds # {} /\ RunningIds # {}

\* C7 (as claimed): each call recorded in running holds a reservation, up to
\* the moment the handler of its reply, which has released it at line 239,
\* takes the call out of running.
C7_RunningReserved ==
    \A c \in RunningIds :
        \/ HoldsReservation(c)
        \/ \E w \in Workers : wk[w].pc = "handle_lock" /\ wk[w].call = c

\* C8 (as claimed): each id in discarded belongs to a call that is in
\* pending, in running, or popped by a drain in progress.
C8_NoLeakedDiscard ==
    \A c \in discarded_func_calls_ :
        \/ c \in PendingIds \cup RunningIds
        \/ \E w \in Workers :
               /\ wk[w].pc \in {"drain_pick", "drain_send", "drain_relock"}
               /\ wk[w].call = c

\* C9: a reply handled for a call that is in running and in discarded
\* invokes no completion callback and writes no context; it removes exactly
\* that entry from running and the id from discarded, and skips lines
\* 282-292.
C9_DiscardedReply ==
    [][\A w \in Workers :
          (/\ StepsFrom(w, "handle_lock")
           /\ wk[w].call \in RunningIds
           /\ wk[w].call \in discarded_func_calls_)
          => (/\ cb' = cb
              /\ ctx' = ctx
              /\ running_func_calls_' =
                     running_func_calls_ \ {RunningState(wk[w].call)}
              /\ Cardinality(running_func_calls_') =
                     Cardinality(running_func_calls_) - 1
              /\ discarded_func_calls_' =
                     discarded_func_calls_ \ {wk[w].call}
              /\ wk'[w].pc = "drain")]_vars

\* A call that was sent and then discarded has had its reply handled: it is in
\* neither set any more and no callback was invoked for it.
C9_Witness ==
    \E c \in discard_returned :
        /\ sent[c] # 0
        /\ replies[c] > 0
        /\ c \notin discarded_func_calls_
        /\ c \notin RunningIds
        /\ cb[c] = 0
        /\ ctx[c].status = kCreated
        /\ AllIdle

\* C10: a synchronous call whose SendMessage returned false has had exactly
\* one FuncCallFinished and exactly one callback, with status not_found, and
\* is in neither running nor pending.
C10_SyncSendFailure ==
    \A c \in send_failed :
        /\ picked[c] # 0
        /\ fins[c] = 1
        /\ cb[c] = 1
        /\ ctx[c].status = kNotFound
        /\ c \notin RunningIds
        /\ c \notin PendingIds

\* The send failed on each path: both calls are synchronous and failed to
\* send, and exactly one of them was picked in drain, where the queueing
\* delay is sampled; the other was picked in on_new_call.
C10_Witness ==
    /\ send_failed = {1, 2}
    /\ queueing_delay_stat_ = 1
    /\ AllIdle

\* --------------------------------------------- claims on on_new_call
OnNewCallPcs == {"new_pick", "new_lock", "new_dispatch", "new_record"}

\* Worker w returns from OnNewFuncCallCommon in this step.
ReturnsFromNewCall(w) == wk[w].pc \in OnNewCallPcs /\ wk'[w] = Idle

\* The on_new_call of call c has returned.
Returned(c) ==
    /\ \E i \in DOMAIN allocated : allocated[i] = c
    /\ \A w \in DOMAIN wk : ~(wk[w].pc \in OnNewCallPcs /\ wk[w].call = c)

PendingIdsNext == {pending_func_calls_'[i].func_call :
                      i \in DOMAIN pending_func_calls_'}
RunningIdsNext == {s.func_call : s \in running_func_calls_'}

\* C11 (as claimed): when on_new_call returns for an asynchronous call, the
\* callback has been invoked exactly once, with success iff no node was
\* picked or the send succeeded and with not_found iff a node was picked and
\* the send failed; the call is in pending iff no node was picked, and in
\* running iff a node was picked and the send succeeded.
C11_AsyncAccept ==
    [][\A w \in DOMAIN wk :
          (ReturnsFromNewCall(w) /\ ctx[wk[w].call].is_async)
          => LET c == wk[w].call
                 node_picked == "picked" \in outcome'[c]
                 send_ok == "sent" \in outcome'[c]
             IN /\ cb'[c] = 1
                /\ ctx'[c].status = kSuccess <=> (~node_picked \/ send_ok)
                /\ ctx'[c].status = kNotFound <=> (node_picked /\ ~send_ok)
                /\ c \in PendingIdsNext <=> ~node_picked
                /\ c \in RunningIdsNext <=> (node_picked /\ send_ok)]_vars

\* C11 (amended): when on_new_call returns for an asynchronous call, the
\* callback has been invoked exactly once, with success iff no node was
\* picked or the send succeeded and with not_found iff a node was picked and
\* the send failed, and it is not invoked again; on_new_call has pushed the
\* call to pending iff no node was picked and has recorded it in running iff
\* a node was picked and the send succeeded.  The call is in running in the
\* latter case and in neither set when the send failed; a call that was
\* pushed may have been popped by another worker's drain already.
C11_AsyncAcceptDone ==
    [][/\ \A w \in DOMAIN wk :
             (ReturnsFromNewCall(w) /\ ctx[wk[w].call].is_async)
             => LET c == wk[w].call
                    node_picked == "picked" \in outcome'[c]
                    send_ok == "sent" \in outcome'[c]
                IN /\ cb'[c] = 1
                   /\ "callback" \in outcome'[c]
                   /\ ctx'[c].status = kSuccess <=> (~node_picked \/ send_ok)
                   /\ ctx'[c].status = kNotFound <=> (node_picked /\ ~send_ok)
                   /\ "pending" \in outcome'[c] <=> ~node_picked
                   /\ "running" \in outcome'[c] <=> (node_picked /\ send_ok)
                   /\ (node_picked /\ send_ok) => c \in RunningIdsNext
                   /\ (node_picked /\ ~send_ok)
                          => c \notin PendingIdsNext \cup RunningIdsNext
       /\ \A c \in DOMAIN ctx :
             (Returned(c) /\ ctx[c].is_async)
             => cb'[c] = cb[c] /\ ctx'[c] = ctx[c]]_vars

\* Two asynchronous calls have been accepted: one found no node and was
\* queued with success, the other was picked and its send failed.
C11_Witness ==
    \E c1, c2 \in DOMAIN ctx :
        /\ ctx[c1].is_async /\ ctx[c2].is_async
        /\ Returned(c1) /\ Returned(c2)
        /\ outcome[c1] = {"pending", "callback"}
        /\ ctx[c1].status = kSuccess
        /\ outcome[c2] = {"picked", "callback"}
        /\ ctx[c2].status = kNotFound

\* ------------------------------------------- claims on engine replies
\* C12: when a reply is handled for a synchronous call that is in running
\* and not in discarded, the entry is removed from running; if the call's
\* connection is in connections_ the callback is then invoked exactly once,
\* with success and the payload as output for FuncCallComplete and with
\* failed and nothing appended for FuncCallFailed; if the connection is not
\* in connections_ there is no callback and no write to the context.
C12_SyncReply ==
    [][\A w \in DOMAIN wk :
          /\ (/\ StepsFrom(w, "handle_lock")
              /\ wk[w].call \in RunningIds
              /\ RunningState(wk[w].call).connection_id # -1
              /\ wk[w].call \notin discarded_func_calls_)
             => LET c == wk[w].call
                IN /\ running_func_calls_' =
                          running_func_calls_ \ {RunningState(c)}
                   /\ c \notin RunningIdsNext
                   /\ cb' = cb /\ ctx' = ctx
                   /\ IF RunningState(c).connection_id \in connections_
                      THEN /\ wk'[w].pc = "handle_finish"
                           /\ wk'[w].context = c
                           /\ wk'[w].type = wk[w].type
                           /\ wk'[w].payload = wk[w].payload
                      ELSE wk'[w].pc = "drain"
          /\ StepsFrom(w, "handle_finish")
             => LET c == wk[w].context
                IN /\ cb[c] = 0
                   /\ cb' = [cb EXCEPT ![c] = 1]
                   /\ \A d \in DOMAIN ctx \ {c} : ctx'[d] = ctx[d]
                   /\ wk[w].type = "FuncCallComplete"
                          => /\ ctx'[c].status = kSuccess
                             /\ ctx'[c].output = wk[w].payload
                   /\ wk[w].type = "FuncCallFailed"
                          => /\ ctx'[c].status = kFailed
                             /\ ctx'[c].output = ctx[c].output
                   /\ wk'[w].pc = "drain"]_vars

\* Both cases have happened: one synchronous call got its reply's payload
\* with success; the other one's connection was gone when its reply found it
\* in running, and it got no callback.
C12_Witness ==
    \E c1, c2 \in DOMAIN ctx :
        /\ ~ctx[c1].is_async /\ ~ctx[c2].is_async
        /\ ctx[c1].status = kSuccess /\ ctx[c1].output = <<1>> /\ cb[c1] = 1
        /\ sent[c2] # 0 /\ replies[c2] > 0 /\ c2 \notin RunningIds
        /\ c2 \notin discard_returned
        /\ ctx[c2].connection_id \notin connections_
        /\ cb[c2] = 0 /\ ctx[c2].status = kCreated
        /\ dispatch_overhead_stat_ = 2
        /\ \A w \in DOMAIN wk : wk[w] = Idle

\* --------------------------------------------- claims on the requests
\* The request names no function the gateway can call: on an HTTP
\* connection a name that is not configured, on a gRPC connection also a
\* function that is no gRPC service or a method the service does not have.
UnknownTarget(connection_id, func_name, method_name) ==
    \/ func_name \notin DOMAIN FuncConfig
    \/ /\ conn_type[connection_id] = "grpc"
       /\ \/ ~FuncConfig[func_name].is_grpc_service
          \/ method_name \notin DOMAIN FuncConfig[func_name].grpc_method_ids

\* C13: a request is finished without a call id exactly when its target is
\* unknown; the callback is then invoked once with not_found, and
\* next_call_id_, pending, running, discarded, the NodeManager's
\* reservations, every statistic, the contexts of the calls and the workers
\* are unchanged and nothing is sent.
C13_UnknownTarget ==
    [][/\ rejected' # rejected
          => /\ Len(rejected') = Len(rejected) + 1
             /\ SubSeq(rejected', 1, Len(rejected)) = rejected
             /\ LET r == rejected'[Len(rejected')]
                IN /\ UnknownTarget(r.connection_id, r.func_name, r.method_name)
                   /\ r.status = kNotFound
                   /\ r.finished = 1
             /\ UNCHANGED <<next_call_id_, allocated, tableVars, nodeVars,
                            statVars, tickVars, engineVars, ctx, cb, wk,
                            picked, fins, connections_>>
       /\ allocated' # allocated
          => LET c == allocated'[Len(allocated')]
             IN /\ ~UnknownTarget(ctx'[c].connection_id, ctx'[c].func_name,
                                  ctx'[c].method_name)
                /\ rejected' = rejected]_vars

\* A gRPC request for a method the service does not have has been rejected
\* while one call was queued and another one running.
C13_Witness ==
    /\ Len(rejected) = 1
    /\ rejected[1].func_name = "svc"
    /\ rejected[1].method_name = "x"
    /\ PendingIds # {}
    /\ RunningIds # {}

\* --------------------------------------------------- claims on call ids
\* C14 (as claimed): the call ids are strictly increasing in the order of
\* allocation, hence pairwise distinct, in every run.
C14_Monotonic ==
    \A i, j \in DOMAIN allocated : i < j => allocated[i] < allocated[j]

\* C14 (amended): a run that starts with the counter at 1 allocates 1 first;
\* every call id fits the 16-bit field; each allocation yields the previous
\* call id plus one, except that 65535 is followed by 0; so the ids are
\* strictly increasing and pairwise distinct over any stretch of allocations
\* that does not pass 65535.
C14_MonotonicUpToWrap ==
    /\ (next_call_id_ - Len(allocated) = 1 /\ allocated # <<>>)
           => allocated[1] = 1
    /\ \A i \in DOMAIN allocated : allocated[i] \in 0..(kCallIdModulus - 1)
    /\ \A i \in DOMAIN allocated :
           i < Len(allocated)
           => allocated[i + 1] = (IF allocated[i] = kCallIdModulus - 1
                                  THEN 0 ELSE allocated[i] + 1)
    /\ \A i, j \in DOMAIN allocated :
           (i < j /\ \A k \in i..(j - 1) : allocated[k] # kCallIdModulus - 1)
           => allocated[i] < allocated[j]

\* The counter has passed the wrap: call id 65535 was followed by 0 and 1.
C14_Witness ==
    \E i \in DOMAIN allocated :
        /\ i + 2 \in DOMAIN allocated
        /\ allocated[i] = kCallIdModulus - 1
        /\ allocated[i + 1] = 0
        /\ allocated[i + 2] = 1

\* ------------------------------------------------ claims on timestamps
\* The last_request_timestamp of function func_id, -1 before its PerFuncStat
\* exists (as its constructor sets it).
PerFuncLast(stats, func_id) ==
    IF func_id \in DOMAIN stats THEN stats[func_id].last_request_timestamp ELSE -1

\* C15: whatever the clock returns, each execution of the locked block of
\* on_new_call makes last_request_timestamp_ strictly larger, makes the
\* last_request_timestamp of the call's function strictly larger and leaves
\* those of the other functions alone; no other step writes them.
C15_TimestampMonotonic ==
    [][IF \E w \in DOMAIN wk : StepsFrom(w, "new_lock")
       THEN \A w \in DOMAIN wk :
              StepsFrom(w, "new_lock")
              => LET func_id == ctx[wk[w].call].func_id
                 IN /\ last_request_timestamp_' > last_request_timestamp_
                    /\ PerFuncLast(per_func_stats_', func_id)
                           > PerFuncLast(per_func_stats_, func_id)
                    /\ \A f \in DOMAIN per_func_stats_' \ {func_id} :
                           /\ f \in DOMAIN per_func_stats_
                           /\ per_func_stats_'[f] = per_func_stats_[f]
       ELSE /\ last_request_timestamp_' = last_request_timestamp_
            /\ DOMAIN per_func_stats_' = DOMAIN per_func_stats_
            /\ \A f \in DOMAIN per_func_stats_ :
                   PerFuncLast(per_func_stats_', f)
                       = PerFuncLast(per_func_stats_, f)]_vars

\* Calls of two functions have been stamped, and the clock's reading for the
\* second one, not later than the first one's, was moved past the largest
\* value the clock returns.
C15_Witness ==
    /\ DOMAIN per_func_stats_ = {1, 2}
    /\ last_request_timestamp_ = MaxClock + 1
    /\ \E f \in {1, 2} : per_func_stats_[f].last_request_timestamp = MaxClock + 1

\* -------------------------------------- claims on on_new_call's outcome
\* What the on_new_call of call c did of the three: pushed the call to
\* pending, recorded it in running, invoked the completion callback.
Effects(c) == outcome[c] \cap {"pending", "running", "callback"}

\* C16: every on_new_call that has returned has pushed the call to pending,
\* recorded it in running or invoked the callback with a terminal status; a
\* request that got no call id was finished with not_found.  For a
\* synchronous call exactly one of the three was done: the push when no node
\* was picked, the record in running when a node was picked and the send
\* succeeded, the callback (with not_found) when the send failed.
C16_TerminalOutcome ==
    /\ \A i \in DOMAIN rejected :
           rejected[i].status = kNotFound /\ rejected[i].finished = 1
    /\ \A c \in DOMAIN ctx :
           Returned(c)
           => /\ Effects(c) # {}
              /\ "callback" \in Effects(c) => cb[c] >= 1
              /\ (ctx[c].is_async \/ "callback" \in Effects(c))
                     => ctx[c].status \in {kSuccess, kNotFound}
              /\ ~ctx[c].is_async
                     => /\ Cardinality(Effects(c)) = 1
                        /\ "picked" \notin outcome[c]
                               => Effects(c) = {"pending"}
                        /\ ("picked" \in outcome[c] /\ "sent" \in outcome[c])
                               => Effects(c) = {"running"}
                        /\ ("picked" \in outcome[c] /\ "sent" \notin outcome[c])
                               => /\ Effects(c) = {"callback"}
                                  /\ ctx[c].status = kNotFound

\* One synchronous call was queued, the send of another one failed, and a
\* request for an unknown function was turned down.
C16_Witness ==
    /\ Len(rejected) = 1
    /\ \E c1, c2 \in DOMAIN ctx :
           /\ ~ctx[c1].is_async /\ ~ctx[c2].is_async
           /\ Returned(c1) /\ Returned(c2)
           /\ outcome[c1] = {"pending"}
           /\ outcome[c2] = {"picked", "callback"}

\* ------------------------------------------------ claims on the queue
\* C17 (as claimed): the entries of pending are in the order in which they
\* were first enqueued.  Calls that arrive through the same I/O worker are
\* enqueued in the order of their call ids, so among them the ids in pending
\* increase from the front.
C17_PendingOrder ==
    \A i, j \in DOMAIN pending_func_calls_ :
        LET a == pending_func_calls_[i].func_call
            b == pending_func_calls_[j].func_call
        IN (i < j /\ conn_worker[ctx[a].connection_id]
                     = conn_worker[ctx[b].connection_id])
           => a < b

\* The workers that are between the pick of a node and the return of
\* DispatchFuncCall or DispatchAsyncFuncCall, where SendMessage is called
Sending == {w \in DOMAIN wk : wk[w].pc \in {"new_dispatch", "drain_send"}}

\* C18: a worker that is executing SendMessage, from on_new_call or from a
\* drain (started by a node connection or by the engine-reply handler), does
\* not hold mu_, and a worker that has returned from its handler does not
\* hold it either.
C18_NoSendUnderLock ==
    \A w \in DOMAIN wk :
        (w \in Sending \/ wk[w] = Idle) => mu_ # w

\* A drain is about to send a call while the mutex is free, after another
\* call was sent from on_new_call and its reply was handled.
C18_Witness ==
    \E w \in Sending, c \in DOMAIN ctx :
        /\ wk[w].pc = "drain_send"
        /\ mu_ = 0
        /\ "sent" \in outcome[c]
        /\ cb[c] >= 1
        /\ c # wk[w].call

\* C19 (as claimed): one invocation of TryDispatchingPendingFuncCalls pops
\* at most as many entries as pending held when the invocation first took
\* mu_, whatever other workers enqueue while it runs.
C19_BoundedDrain ==
    \A w \in DOMAIN wk : wk[w].processed <= wk[w].sampled

\* ------------------------------------------------ claims on dead heads
\* Worker w runs a locked stretch of the loop of
\* TryDispatchingPendingFuncCalls that pops entries in this step.
Scans(w) ==
    \/ StepsFrom(w, "drain")
    \/ StepsFrom(w, "drain_relock") /\ wk[w].node_picked

\* An entry of pending the drain is to drop: its id is in discarded, or it is
\* synchronous and its connection is not in connections.
DeadEntry(state) ==
    \/ state.func_call \in discarded_func_calls_
    \/ state.connection_id >= 0 /\ state.connection_id \notin connections_

\* Call c was pushed to pending and has left it without ever being picked
\* or held by a worker: a drain dropped it.
Dropped(c) ==
    /\ "pending" \in outcome[c]
    /\ Returned(c)
    /\ c \notin PendingIds
    /\ picked[c] = 0
    /\ \A w \in DOMAIN wk : wk[w].call # c

\* C20: a stretch of the drain loop removes a prefix of pending.  Every
\* entry of the prefix but the one the drain goes on to dispatch was dead,
\* and for each of them no node is picked, nothing is sent, no callback is
\* invoked, it is not inserted into running, and its id, if it was in
\* discarded, is removed from discarded.  The drain goes on past the dead
\* entries: it stops at the first entry that is not dead, or when pending is
\* empty.
C20_DropDeadHeads ==
    [][\A w \in DOMAIN wk :
          Scans(w)
          => LET popped == Len(pending_func_calls_) - Len(pending_func_calls_')
                 live == wk'[w].pc = "drain_pick"
                 dropped == popped - (IF live THEN 1 ELSE 0)
                 ids == {pending_func_calls_[i].func_call : i \in 1..dropped}
             IN /\ dropped >= 0
                /\ pending_func_calls_' =
                      SubSeq(pending_func_calls_, popped + 1,
                             Len(pending_func_calls_))
                /\ \A i \in 1..dropped : DeadEntry(pending_func_calls_[i])
                /\ \A c \in ids :
                      /\ picked'[c] = picked[c]
                      /\ sent'[c] = sent[c]
                      /\ cb'[c] = cb[c]
                      /\ ctx'[c] = ctx[c]
                      /\ c \in RunningIdsNext => c \in RunningIds
                /\ inflight' = inflight
                /\ discarded_func_calls_' = discarded_func_calls_ \ ids
                /\ IF live
                   THEN /\ wk'[w].state = pending_func_calls_[popped]
                        /\ ~DeadEntry(wk'[w].state)
                   ELSE /\ wk'[w] = Idle
                        /\ pending_func_calls_' = <<>>]_vars

\* A drain has dropped a discarded call, whose id has left discarded, and a
\* synchronous call whose connection was closed without a discard; neither
\* was sent or finished.
C20_Witness ==
    \E c1, c2 \in DOMAIN ctx :
        /\ c1 # c2
        /\ Dropped(c1) /\ Dropped(c2)
        /\ c1 \in discard_returned
        /\ c1 \notin discarded_func_calls_
        /\ c2 \notin discard_returned
        /\ ~ctx[c2].is_async
        /\ ctx[c2].connection_id \notin connections_
        /\ sent[c1] = 0 /\ sent[c2] = 0
        /\ cb[c1] = 0 /\ cb[c2] = 0

\* ------------------------------------------------ claims on late replies
\* Worker w is in HandleFuncCallCompleteOrFailedMessage.
Handling(w) == wk[w].pc \in {"handle_lock", "handle_finish"}

\* C21: handling a FuncCallComplete or FuncCallFailed message for a call that
\* is not in running leaves pending, running, discarded, connections and
\* every statistic (dispatch_overhead, end2end_delay, running_requests and
\* the others) unchanged, invokes no completion callback, changes no context
\* and starts no drain; the receipt of any message leaves them unchanged too.
C21_LateReplyInert ==
    [][\A w \in DOMAIN wk :
          \/ /\ StepsFrom(w, "handle_lock")
             /\ wk[w].call \notin RunningIds
          \/ /\ wk[w] = Idle
             /\ wk'[w].pc = "handle_lock"
          => /\ UNCHANGED <<pending_func_calls_, running_func_calls_,
                            discarded_func_calls_, connections_, statVars,
                            tickVars, cb, cb_after_discard, ctx>>
             /\ StepsFrom(w, "handle_lock") => wk'[w] = Idle]_vars

\* Two replies for a call have been handled to the end: the one that found
\* the call in running finished it, the other found it gone and returned.
C21_Witness ==
    \E c \in DOMAIN ctx :
        /\ replies[c] = 2
        /\ \A w \in DOMAIN wk : ~(Handling(w) /\ wk[w].call = c)
        /\ c \notin RunningIds
        /\ cb[c] = 1
        /\ dispatch_overhead_stat_ = 1

\* ---------------------------------------------- claims on discard_call
\* C22: DiscardFuncCall(id) adds id to discarded and changes nothing else of
\* the gateway: pending, running, connections, the NodeManager's
\* reservations, next_call_id_, the statistics, the contexts and the workers
\* are as before.  A second DiscardFuncCall(id), and a third, would leave
\* the state of the first.
C22_DiscardFrame ==
    [][discard_returned' # discard_returned
       => \E c \in DOMAIN ctx :
             LET once == discarded_func_calls_'
                 twice == DiscardedAfterInsert(once, c)
             IN /\ discard_returned' = discard_returned \cup {c}
                /\ once = discarded_func_calls_ \cup {c}
                /\ twice = once
                /\ DiscardedAfterInsert(twice, c) = once
                /\ UNCHANGED <<pending_func_calls_, running_func_calls_,
                               serverVars, nodeVars, statVars, tickVars,
                               ctx, wk, cb, sent, picked>>]_vars

\* Both a queued call and a running call have been discarded, and each is
\* still where it was.
C22_Witness ==
    \E c1, c2 \in discard_returned :
        /\ c1 \in PendingIds /\ c1 \in discarded_func_calls_
        /\ c2 \in RunningIds /\ c2 \in discarded_func_calls_

\* ------------------------------------------- claims on queueing_delay
\* C23 (as claimed): a queueing_delay sample is recorded exactly by the step
\* of a drain that enters a queued call into running after a node was
\* picked and the send succeeded; no sample is recorded for a queued call
\* whose send failed, that was dropped or that was pushed back.
C23_QueueingDelaySample ==
    [][/\ queueing_delay_stat_' \in {queueing_delay_stat_,
                                     queueing_delay_stat_ + 1}
       /\ queueing_delay_stat_' # queueing_delay_stat_
          <=> \E w \in DOMAIN wk :
                 /\ StepsFrom(w, "drain_relock")
                 /\ wk[w].node_picked
                 /\ wk[w].dispatched
                 /\ wk[w].call \in RunningIdsNext]_vars

\* ------------------------------------------------ claims on completion
\* The calls in pending or in running before or after the step
Tracked == PendingIds \cup RunningIds
TrackedNext == PendingIdsNext \cup RunningIdsNext

\* C24 (as claimed): the completion callback is invoked at most once for a
\* call, and never for a call that is in pending or running at that moment.
C24_AtMostOnce ==
    [][\A c \in DOMAIN ctx :
          cb'[c] # cb[c]
          => /\ cb[c] = 0 /\ cb'[c] = 1
             /\ c \notin Tracked]_vars

\* C24 (amended): the completion callback is invoked at most once for a
\* call, and for a synchronous call never while the call is in pending or
\* running.  An asynchronous call is finished on acceptance by on_new_call,
\* which may find it in pending or in running.
C24_AtMostOnceSync ==
    [][\A c \in DOMAIN ctx :
          cb'[c] # cb[c]
          => /\ cb[c] = 0 /\ cb'[c] = 1
             /\ ctx[c].is_async
                => \E w \in DOMAIN wk : /\ wk[w].pc \in OnNewCallPcs
                                        /\ wk[w].call = c
             /\ ~ctx[c].is_async
                => c \notin Tracked /\ c \notin TrackedNext]_vars

\* A synchronous call was finished once although two replies for it were
\* handled, and an asynchronous call was finished while it is queued.
C24_Witness ==
    \E c1, c2 \in DOMAIN ctx :
        /\ ~ctx[c1].is_async
        /\ replies[c1] = 2
        /\ \A w \in DOMAIN wk : ~(Handling(w) /\ wk[w].call = c1)
        /\ cb[c1] = 1
        /\ ctx[c1].status = kSuccess
        /\ ctx[c2].is_async
        /\ cb[c2] = 1
        /\ c2 \in PendingIds

=============================================================================
